---- MODULE Spec2Model ----
(***************************************************************************)
(* Order lifecycle and payment reconciliation of the Elfamor backend       *)
(* (payments/views.py, payments/models.py, payments/shiprocket_service.py).*)
(*                                                                         *)
(* The database runs in autocommit mode (settings.py sets neither          *)
(* ATOMIC_REQUESTS nor any transaction.atomic / select_for_update), so     *)
(* every ORM call of a handler is one atomic step and the steps of         *)
(* concurrent requests interleave.  Each request is a process with a       *)
(* position (pc) and its in-memory objects (loc).                          *)
(*                                                                         *)
(* Money is counted in thousandths of a rupee.                             *)
(***************************************************************************)
EXTENDS Integers, Sequences, FiniteSets, TLC

\* ------------------------------------------------------------------ bounds
MaxRequests == 4       \* requests served in one sequential behaviour
MaxConcurrent == 3     \* requests started in one concurrent behaviour
MaxQty == 2            \* quantity of one order line
MaxCouriers == 2       \* candidate couriers in one serviceability response
MaxShipEvents == 3     \* shipment webhook requests in one behaviour
MaxShipCalls == 3      \* create_shipment / cancel_shipment requests in one behaviour

Procs == {1, 2}        \* request workers running concurrently
Products == {1, 2}
Orders == {1, 2}

Mills(rupees) == rupees * 1000

\* ------------------------------------------------------- program constants
FREE_SHIPPING_THRESHOLD == 3000
SHIPPING_CHARGE == 70
TRACKING_LIMIT == 50   \* tracking updates handle_shipment_status keeps

\* catalogue: list price (product 1 costs 0.40) and opening stock of the products
Price(p) == IF p = 1 THEN 400 ELSE Mills(2000)
OpeningStock(p) == IF p = 1 THEN 1 ELSE 2

\* ======================================================================
\* Shipping quote: ShiprocketService.calculate_shipping_charges
\* ======================================================================
NoRate == -1           \* "rate" key absent or not a number
CourierIds == {1, 2}
Courier == [id : CourierIds, rate : {NoRate, 0, Mills(50)},
            freight : {0, Mills(40)}, other : {0, Mills(10)}]

\* compute_rate(c): the declared rate if it parses and is positive, else
\* freight_charge + other_charges
compute_rate(c) ==
    IF c.rate # NoRate /\ c.rate > 0 THEN c.rate ELSE c.freight + c.other

\* first courier of the list whose courier_company_id is the recommended id
RECURSIVE FindRecommended(_, _)
FindRecommended(couriers, rid) ==
    IF couriers = <<>> THEN 0
    ELSE IF Head(couriers).id = rid THEN 1
    ELSE LET r == FindRecommended(Tail(couriers), rid)
         IN  IF r = 0 THEN 0 ELSE r + 1

\* indices of the couriers with compute_rate(c) > 0
ValidCouriers(couriers) ==
    {i \in 1..Len(couriers) : compute_rate(couriers[i]) > 0}

\* min(valid_couriers, key=compute_rate): the first courier of least rate
CheapestValid(couriers) ==
    CHOOSE i \in ValidCouriers(couriers) :
        \A j \in ValidCouriers(couriers) :
            \/ compute_rate(couriers[i]) < compute_rate(couriers[j])
            \/ compute_rate(couriers[i]) = compute_rate(couriers[j]) /\ i <= j

\* the courier the quote selects (0: none)
SelectedCourier(couriers, rid) ==
    LET rec == IF rid # 0 THEN FindRecommended(couriers, rid) ELSE 0
    IN  IF rec # 0 THEN rec
        ELSE IF ValidCouriers(couriers) = {} THEN 0
        ELSE CheapestValid(couriers)

\* (success, rate, courier) as calculate_shipping_charges returns it for the
\* aggregator's answer q = [ok, couriers, rid]
calculate_shipping_charges(q) ==
    IF ~q.ok \/ q.couriers = <<>>
    THEN [success |-> FALSE, rate |-> 0, courier |-> 0]
    ELSE LET s == SelectedCourier(q.couriers, q.rid)
         IN  IF s = 0
             THEN [success |-> FALSE, rate |-> 0, courier |-> 0]
             ELSE [success |-> TRUE, rate |-> compute_rate(q.couriers[s]),
                   courier |-> q.couriers[s].id]

\* ======================================================================
\* State
\* ======================================================================
VARIABLES
    discountField, \* Product declares discounted_price (read at views.py:162)
    stock,         \* Product.stock
    orders,        \* Order rows
    items,         \* OrderItem rows: quantity per order and product (0: no line)
    payments,      \* Payment rows of each order, oldest first
    cart,          \* the user has a Cart row
    gwPay,         \* payment attempts the gateway holds for each order
    gwAmount,      \* amount (paise) of the gateway order opened for each order
    gwOrders,      \* amounts (paise) of the orders opened at the gateway, oldest first
    pc,            \* position of each request worker
    loc,           \* in-memory objects of each request worker
    resp,          \* response of each request worker
    nreq,          \* requests started
    debits,        \* times a stock debit was written, per order and product
    cartClears,    \* times the cart was deleted on behalf of each order
    quoteIn,       \* serviceability answer under evaluation
    quoteOut,      \* what calculate_shipping_charges returned for it, once called
    shipStatus,    \* Order.shipping_status of the order the aggregator ships
    deliveredAt,   \* its Order.delivered_at (0: null)
    shipLast,      \* the last shipment webhook request received
    shipResp,      \* the HTTP status it was answered with (0: none yet)
    shipCount,     \* shipment webhook requests received
    trackingLog,   \* its Order.tracking_data['tracking_data']: for each entry,
                   \* the number of the request that appended it (0: a request
                   \* received before the behaviour starts)
    shiprocketId,  \* its Order.shiprocket_order_id (0: null)
    aggOrders,     \* orders the aggregator has created for it
    aggUp,         \* the aggregator accepts create-order calls
    tpc,           \* position of the background shipment task
    tmem,          \* the Order object the task holds
    cpc,           \* position of the worker serving shipment requests
    cmem,          \* the Order object that worker holds
    cresp,         \* its request and response
    ncalls         \* shipment requests started

dbVars == <<stock, orders, items, payments, cart>>
gwVars == <<gwPay, gwAmount, gwOrders>>
procVars == <<pc, loc, resp, nreq>>
histVars == <<debits, cartClears>>
quoteVars == <<quoteIn, quoteOut>>
fulVars == <<shiprocketId, aggOrders, aggUp, tpc, tmem, cpc, cmem, cresp, ncalls>>
shipVars == <<shipStatus, deliveredAt, shipLast, shipResp, shipCount, trackingLog, fulVars>>
vars == <<discountField, dbVars, gwVars, procVars, histVars, quoteVars, shipVars>>

\* ------------------------------------------------------------ Order rows
NoOrder == [status |-> "none", subtotal |-> 0, shipment_charge |-> 0,
            total_amount |-> 0, amount |-> 0, free_shipping |-> FALSE]

Exists(o) == orders[o].status # "none"

\* Order.save without line 65: the total is not recomputed
OrderSave_StaleTotal(row) ==
    LET charge == IF row.subtotal >= Mills(FREE_SHIPPING_THRESHOLD)
                  THEN 0 ELSE Mills(SHIPPING_CHARGE)
    IN  [row EXCEPT !.shipment_charge = charge,
                    !.free_shipping = (row.subtotal >= Mills(FREE_SHIPPING_THRESHOLD))]

\* Order.save: the shipping charge is the flat rule on the subtotal and the
\* total is recomputed from it; the row written is the whole object
OrderSave(row) ==
    LET charge == IF row.subtotal >= Mills(FREE_SHIPPING_THRESHOLD)
                  THEN 0 ELSE Mills(SHIPPING_CHARGE)
    IN  [row EXCEPT !.shipment_charge = charge,
                    !.free_shipping = (row.subtotal >= Mills(FREE_SHIPPING_THRESHOLD)),
                    !.total_amount = row.subtotal + charge]

\* ---------------------------------------------------------- Payment rows
\* Payment.order is a OneToOneField: a second row for an order is refused
PaymentUnique == TRUE

CanInsertPayment(o) == ~PaymentUnique \/ payments[o] = <<>>

\* get_or_create without the update of a row that was there
UpsertCaptured_KeepsFound(rows) ==
    IF rows = <<>> THEN <<[status |-> "captured"]>> ELSE rows

\* Payment.objects.get_or_create(order=..., defaults={status: captured}) and,
\* for a row that was there, the update to captured
UpsertCaptured(rows) ==
    IF rows = <<>> THEN <<[status |-> "captured"]>>
    ELSE [rows EXCEPT ![1] = [status |-> "captured"]]

\* ------------------------------------------------------------ Order lines
ZeroItems == [p \in Products |-> 0]
\* the items of a request are not validated beyond having product_id and
\* quantity (serializers.py:30-34): a quantity may be negative
NegativeLine == {[p \in Products |-> IF p = 1 THEN 0 - 1 ELSE q] : q \in 1..MaxQty}

Requests == ([Products -> 0..MaxQty] \ {ZeroItems}) \cup NegativeLine

Lines(req) == {p \in Products : req[p] # 0}

\* total_quantity (views.py:171)
TotalQuantity(req) == req[1] + req[2]

\* the first line OrderItem.quantity, a PositiveIntegerField, refuses (0: none)
FirstRefused(req) ==
    IF {p \in Products : req[p] < 0} = {} THEN 0
    ELSE CHOOSE p \in Products : req[p] < 0 /\ \A q \in Products : req[q] < 0 => p <= q

\* the OrderItem rows inserted before the loop of views.py:295-301 stops
InsertedItems(req) ==
    [p \in Products |->
        IF req[p] > 0 /\ (FirstRefused(req) = 0 \/ p < FirstRefused(req))
        THEN req[p] ELSE 0]

\* the order line after product k (0: none), lines taken in id order
NextLine(req, k) ==
    IF {p \in Lines(req) : p > k} = {} THEN 0
    ELSE CHOOSE p \in Lines(req) : p > k /\ \A q \in Lines(req) : q > k => p <= q

\* Product.discounted_price: product 2 is discounted, product 1 is not
NoDiscount == 0
discounted_price(p) == IF p = 2 THEN Mills(1500) ELSE NoDiscount

\* views.py:162
effective_price(p) ==
    IF discounted_price(p) # NoDiscount /\ discounted_price(p) < Price(p)
    THEN discounted_price(p) ELSE Price(p)

RECURSIVE SumOver(_, _)
SumOver(S, req) ==
    IF S = {} THEN 0
    ELSE LET p == CHOOSE x \in S : TRUE
         IN  effective_price(p) * req[p] + SumOver(S \ {p}, req)

Subtotal(req) == SumOver(Lines(req), req)

\* the conversion to paise by cutting off the fraction
AmountInPaise_Truncate(total) == total \div 10

\* int((total_amount * 100).quantize(Decimal('1'), rounding=ROUND_HALF_UP))
AmountInPaise(total) ==
    IF total >= 0 THEN (total + 5) \div 10 ELSE 0 - ((5 - total) \div 10)

\* ------------------------------------------------------- request workers
NoLoc == [h |-> "none", o |-> 0, mem |-> NoOrder, ev |-> "none", sigOk |-> TRUE,
          req |-> ZeroItems, k |-> 0, pstock |-> 0, ship |-> 0, paise |-> 0,
          key |-> FALSE, pin |-> TRUE, sig |-> "none"]
NoResp == [code |-> 0, body |-> "none", details |-> {}]

Response(code, body) == [code |-> code, body |-> body, details |-> {}]

Idle(p) == pc[p] = "idle"

\* rows a create_order in flight has inserted or is about to insert
Creating == {p \in Procs : pc[p] \in {"cr_quote", "cr_gateway", "cr_order", "cr_items"}}

\* the client knows an order (its gateway id) once create_order has answered
\* with it (views.py:305-318), which it does after inserting the items
Visible(o) ==
    /\ Exists(o)
    /\ items[o] # ZeroItems
    /\ \A p \in Procs : ~(pc[p] = "cr_items" /\ loc[p].o = o)

\* the shipping fields of an Order object in memory
NoShipMem == [id |-> 0, status |-> "none"]

\* no shipment request answered
NoShipCall == [h |-> "none", code |-> 0]

\* create_shiprocket_order_async has not been started
NoFulfilment ==
    /\ shiprocketId = 0
    /\ aggOrders = 0
    /\ aggUp = TRUE
    /\ tpc = "none"
    /\ tmem = NoShipMem
    /\ cpc = "idle"
    /\ cmem = NoShipMem
    /\ cresp = NoShipCall
    /\ ncalls = 0

\* no shipment webhook request yet
NoShipEvent == [event |-> "none", status |-> "none", ts |-> 0, known |-> FALSE]

InitStore ==
    /\ discountField \in BOOLEAN
    /\ stock = [p \in Products |-> OpeningStock(p)]
    /\ orders = [o \in Orders |-> NoOrder]
    /\ items = [o \in Orders |-> ZeroItems]
    /\ payments = [o \in Orders |-> <<>>]
    /\ cart = TRUE
    /\ gwPay = [o \in Orders |-> {}]
    /\ gwAmount = [o \in Orders |-> 0]
    /\ gwOrders = <<>>
    /\ pc = [p \in Procs |-> "idle"]
    /\ loc = [p \in Procs |-> NoLoc]
    /\ resp = [p \in Procs |-> NoResp]
    /\ nreq = 0
    /\ debits = [o \in Orders |-> [p \in Products |-> 0]]
    /\ cartClears = [o \in Orders |-> 0]
    /\ shipStatus = "pending"
    /\ deliveredAt = 0
    /\ shipLast = NoShipEvent
    /\ shipResp = 0
    /\ shipCount = 0
    /\ trackingLog = <<>>
    /\ NoFulfilment

Init ==
    /\ InitStore
    /\ quoteIn = [ok |-> FALSE, couriers |-> <<>>, rid |-> 0]
    /\ quoteOut = <<>>

\* ======================================================================
\* Request plumbing
\* ======================================================================
CanStart(p) == Idle(p)

\* worker p ends its handler with response r
Finish(p, r) ==
    /\ pc' = [pc EXCEPT ![p] = "done"]
    /\ resp' = [resp EXCEPT ![p] = r]

\* the response is sent and the worker is free again
Return(p) ==
    /\ pc[p] = "done"
    /\ pc' = [pc EXCEPT ![p] = "idle"]
    /\ loc' = [loc EXCEPT ![p] = NoLoc]
    /\ resp' = [resp EXCEPT ![p] = NoResp]
    /\ UNCHANGED <<discountField, dbVars, gwVars, nreq, histVars, quoteVars, shipVars>>

\* ======================================================================
\* create_order (views.py:120-335)
\* ======================================================================
\* the lines whose product has less stock than requested (views.py:153-160)
stock_validation_errors(req) == {p \in Lines(req) : stock[p] < req[p]}

\* the serviceability answers the aggregator gives create_order here: none;
\* a recommended courier (id 1) without a rate next to one at 50.00; a single
\* courier at 50.005
QuoteAnswers ==
    { [ok |-> FALSE, couriers |-> <<>>, rid |-> 0],
      [ok |-> TRUE, rid |-> 1,
       couriers |-> << [id |-> 1, rate |-> 0, freight |-> 0, other |-> 0],
                       [id |-> 2, rate |-> Mills(50), freight |-> 0, other |-> 0] >>],
      [ok |-> TRUE, rid |-> 0,
       couriers |-> << [id |-> 1, rate |-> 50005, freight |-> 0, other |-> 0] >>] }

\* views.py:122-185: idempotency lookup, pincode, stock validation and
\* subtotal.  The lookup filters Order on idempotency_key, a field Order does
\* not declare (models.py:26-54): with the header present it raises
\* FieldError outside the handler's try.  The price of an in-stock line reads
\* product.discounted_price; where Product does not declare it the read
\* raises AttributeError, caught at views.py:330.  The package grid
\* (views.py:208-222) takes the square root of total_quantity and divides by
\* its ceiling: a total of zero or less raises, caught at views.py:330 too.
StartCreateOrder(p, req, key, pin) ==
    /\ CanStart(p)
    /\ Cardinality({o \in Orders : Exists(o)}) + Cardinality(Creating) < Cardinality(Orders)
    /\ nreq' = nreq + 1
    /\ loc' = [loc EXCEPT ![p] = [NoLoc EXCEPT !.h = "create_order", !.req = req,
                                               !.key = key, !.pin = pin]]
    /\ IF key
       THEN Finish(p, Response(500, "FieldError"))
       ELSE IF ~pin
       THEN Finish(p, Response(400, "PincodeRequired"))
       ELSE IF ~discountField /\ Lines(req) \ stock_validation_errors(req) # {}
       THEN Finish(p, Response(500, "InternalServerError"))
       ELSE IF stock_validation_errors(req) # {}
       THEN Finish(p, [code |-> 400, body |-> "InsufficientStock",
                       details |-> stock_validation_errors(req)])
       ELSE IF TotalQuantity(req) <= 0
       THEN Finish(p, Response(500, "InternalServerError"))
       ELSE /\ pc' = [pc EXCEPT ![p] = "cr_quote"]
            /\ UNCHANGED resp
    /\ UNCHANGED <<discountField, dbVars, gwVars, histVars, quoteVars, shipVars>>

\* views.py:233-261: the shipping quote, the total and the amount in paise
CrQuote(p) ==
    /\ pc[p] = "cr_quote"
    /\ \E q \in QuoteAnswers :
         LET r == calculate_shipping_charges(q)
             total_amount == Subtotal(loc[p].req) + r.rate
         IN  IF ~r.success
             THEN /\ Finish(p, Response(400, "ShippingUnavailable"))
                  /\ UNCHANGED loc
             ELSE IF AmountInPaise(total_amount) < 100
             THEN /\ Finish(p, Response(400, "AmountTooSmall"))
                  /\ UNCHANGED loc
             ELSE /\ loc' = [loc EXCEPT ![p].ship = r.rate,
                                         ![p].paise = AmountInPaise(total_amount)]
                  /\ pc' = [pc EXCEPT ![p] = "cr_gateway"]
                  /\ UNCHANGED resp
    /\ UNCHANGED <<discountField, dbVars, gwVars, nreq, histVars, quoteVars, shipVars>>

\* views.py:264-278, 320-325: client.order.create; a gateway error is a 500
CrGateway(p) ==
    /\ pc[p] = "cr_gateway"
    /\ \E ok \in BOOLEAN :
         IF ok
         THEN /\ gwOrders' = Append(gwOrders, loc[p].paise)
              /\ pc' = [pc EXCEPT ![p] = "cr_order"]
              /\ UNCHANGED resp
         ELSE /\ Finish(p, Response(500, "GatewayError"))
              /\ UNCHANGED gwOrders
    /\ UNCHANGED <<discountField, dbVars, gwPay, gwAmount, loc, nreq, histVars,
                   quoteVars, shipVars>>

\* a Decimal as a DecimalField(decimal_places=2) column stores it: two places,
\* a tie going to the even neighbour
StoredDecimal(x) ==
    LET q == x \div 10
        r == x % 10
    IN  IF r < 5 \/ (r = 5 /\ q % 2 = 0) THEN q * 10 ELSE (q + 1) * 10

\* the row create_order hands to Order.objects.create (views.py:283-292):
\* amount is subtotal + the quoted charge, total_amount is left at its default
NewOrderRow(req, ship) ==
    [status |-> "created", subtotal |-> Subtotal(req), shipment_charge |-> ship,
     total_amount |-> 0, amount |-> StoredDecimal(Subtotal(req) + ship),
     free_shipping |-> FALSE]

\* views.py:283-292: Order.objects.create saves the row under the next id
CrOrder(p) ==
    /\ pc[p] = "cr_order"
    /\ LET o == CHOOSE x \in Orders : ~Exists(x) /\ \A y \in Orders : ~Exists(y) => x <= y
           row == OrderSave(NewOrderRow(loc[p].req, loc[p].ship))
       IN  /\ orders' = [orders EXCEPT ![o] = row]
           /\ gwAmount' = [gwAmount EXCEPT
                  ![o] = loc[p].paise]
           /\ loc' = [loc EXCEPT ![p].o = o, ![p].mem = row]
    /\ pc' = [pc EXCEPT ![p] = "cr_items"]
    /\ UNCHANGED <<discountField, stock, items, payments, cart, gwPay, gwOrders,
                   resp, nreq, histVars, quoteVars, shipVars>>

\* views.py:295-325: the OrderItem rows, then the response.  A line with a
\* negative quantity is refused by the database; the exception is caught at
\* views.py:320 and answered 500, the Order row and the items before it stay.
CrItems(p) ==
    /\ pc[p] = "cr_items"
    /\ items' = [items EXCEPT ![loc[p].o] = InsertedItems(loc[p].req)]
    /\ IF FirstRefused(loc[p].req) = 0
       THEN Finish(p, Response(200, "OrderCreated"))
       ELSE Finish(p, Response(500, "FailedToCreateOrder"))
    /\ UNCHANGED <<discountField, stock, orders, payments, cart, gwVars, loc, nreq,
                   histVars, quoteVars, shipVars>>

\* ======================================================================
\* The gateway and the customer
\* ======================================================================
\* the customer's payment attempt at the gateway fails
AttemptFails(o) ==
    /\ Visible(o)
    /\ gwPay[o] = {}
    /\ gwPay' = [gwPay EXCEPT ![o] = {"failed"}]
    /\ UNCHANGED <<discountField, dbVars, gwAmount, gwOrders, procVars, histVars, quoteVars, shipVars>>

\* the customer pays and the gateway captures the payment (payment_capture: 1)
AttemptCaptured(o) ==
    /\ Visible(o)
    /\ "captured" \notin gwPay[o]
    /\ gwPay' = [gwPay EXCEPT ![o] = @ \cup {"captured"}]
    /\ UNCHANGED <<discountField, dbVars, gwAmount, gwOrders, procVars, histVars, quoteVars, shipVars>>

\* carts/views.py add_to_cart: the user has a cart again
AddToCart ==
    /\ ~cart
    /\ cart' = TRUE
    /\ UNCHANGED <<discountField, stock, orders, items, payments, gwVars, procVars,
                   histVars, quoteVars, shipVars>>

\* ======================================================================
\* handle_successful_payment (views.py:30-91), decrease_order_stock (93-118)
\* ======================================================================
\* what the entry point answers when handle_successful_payment returned
PaidResponse(h) ==
    IF h = "verify_payment" THEN Response(200, "PaymentVerified")
    ELSE IF h = "check_payment_status" THEN Response(200, "paid")
    ELSE Response(200, "success")

\* what the entry point answers when handle_successful_payment raised:
\* verify_payment 500 (views.py:458), the webhook 400 (views.py:654),
\* check_payment_status 200 with the error as message (views.py:515)
RaisedResponse(h) ==
    IF h = "verify_payment" THEN Response(500, "PaymentVerificationFailed")
    ELSE IF h = "check_payment_status" THEN Response(200, "ErrorCheckingPayment")
    ELSE Response(400, "WebhookError")

\* the status handle_successful_payment writes (views.py:36)
PaidStatus == "paid"

\* views.py:36-37: order.status = 'paid'; order.save()
HpSave(p) ==
    /\ pc[p] = "hp_save"
    /\ LET row == OrderSave([loc[p].mem EXCEPT !.status = PaidStatus])
       IN  /\ orders' = [orders EXCEPT ![loc[p].o] = row]
           /\ loc' = [loc EXCEPT ![p].mem = row]
    /\ pc' = [pc EXCEPT ![p] = "hp_payment"]
    /\ UNCHANGED <<discountField, stock, items, payments, cart, gwVars, resp, nreq,
                   histVars, quoteVars, shipVars>>

\* views.py:40-55: the Payment row is created, or found and set to captured;
\* then decrease_order_stock starts on the first order line
HpPayment(p) ==
    /\ pc[p] = "hp_payment"
    /\ payments' = [payments EXCEPT ![loc[p].o] = UpsertCaptured(@)]
    /\ LET k == NextLine(items[loc[p].o], 0)
       IN  /\ loc' = [loc EXCEPT ![p].k = k]
           /\ pc' = [pc EXCEPT ![p] = IF k = 0 THEN "hp_cart" ELSE "ds_read"]
    /\ UNCHANGED <<discountField, stock, orders, items, cart, gwVars, resp, nreq,
                   histVars, quoteVars, shipVars>>

\* views.py:101-106: item.product is loaded; too little stock raises
DsRead(p) ==
    /\ pc[p] = "ds_read"
    /\ LET k == loc[p].k
           quantity == items[loc[p].o][k]
       IN  IF stock[k] < quantity
           THEN /\ Finish(p, RaisedResponse(loc[p].h))
                /\ UNCHANGED loc
           ELSE /\ loc' = [loc EXCEPT ![p].pstock = stock[k]]
                /\ pc' = [pc EXCEPT ![p] = "ds_write"]
                /\ UNCHANGED resp
    /\ UNCHANGED <<discountField, dbVars, gwVars, nreq, histVars, quoteVars, shipVars>>

\* the stock decrease_order_stock writes for a line (views.py:109)
DebitedStock(loaded, quantity) == loaded - quantity

\* views.py:108-110: product.stock -= quantity; product.save() writes the
\* loaded product back, then the loop goes to the next line
DsWrite(p) ==
    /\ pc[p] = "ds_write"
    /\ LET o == loc[p].o
           k == loc[p].k
           n == NextLine(items[o], k)
       IN  /\ stock' = [stock EXCEPT ![k] = DebitedStock(loc[p].pstock, items[o][k])]
           /\ debits' = [debits EXCEPT ![o][k] = @ + 1]
           /\ loc' = [loc EXCEPT ![p].k = n, ![p].pstock = 0]
           /\ pc' = [pc EXCEPT ![p] = IF n = 0 THEN "hp_cart" ELSE "ds_read"]
    /\ UNCHANGED <<discountField, orders, items, payments, cart, gwVars, resp, nreq,
                   cartClears, quoteVars, shipVars>>

\* views.py:61-87: the user's Cart rows are deleted and the result returned
HpCart(p) ==
    /\ pc[p] = "hp_cart"
    /\ cart' = FALSE
    /\ cartClears' = [cartClears EXCEPT ![loc[p].o] = @ + 1]
    /\ Finish(p, PaidResponse(loc[p].h))
    /\ UNCHANGED <<discountField, stock, orders, items, payments, gwVars, loc, nreq,
                   debits, quoteVars, shipVars>>

\* the handlers without their test of the status read
AlreadyPaid_Never(row) == FALSE

\* views.py:439, 483, 568, 631: the order read is taken as already paid
AlreadyPaid(row) == row.status = "paid"

\* views.py:440, 484: Payment.objects.get(order=order) on the already-paid path
ApPayment(p) ==
    /\ pc[p] = "ap_payment"
    /\ IF Len(payments[loc[p].o]) = 1
       THEN Finish(p, Response(200, "AlreadyPaid"))
       ELSE Finish(p, Response(500, "PaymentLookupFailed"))
    /\ UNCHANGED <<discountField, dbVars, gwVars, loc, nreq, histVars, quoteVars, shipVars>>

\* ======================================================================
\* verify_payment (views.py:411-465)
\* ======================================================================
\* verify_payment without the signature check
SignatureVerifies_Always(sigOk) == TRUE

\* client.utility.verify_payment_signature passes (views.py:429)
SignatureVerifies(sigOk) == sigOk

\* A signature that verifies exists only for a payment the gateway holds.
\* views.py:429-436: the signature is verified, then the order is read.
StartVerifyPayment(p, o, sigOk) ==
    /\ CanStart(p)
    /\ Visible(o)
    /\ sigOk => "captured" \in gwPay[o]
    /\ nreq' = nreq + 1
    /\ loc' = [loc EXCEPT ![p] = [NoLoc EXCEPT !.h = "verify_payment", !.o = o,
                                               !.sigOk = sigOk,
                                               !.mem = IF SignatureVerifies(sigOk)
                                                       THEN orders[o] ELSE NoOrder]]
    /\ IF ~SignatureVerifies(sigOk)
       THEN Finish(p, Response(400, "InvalidSignature"))
       ELSE /\ pc' = [pc EXCEPT ![p] = IF AlreadyPaid(orders[o])
                                       THEN "ap_payment" ELSE "hp_save"]
            /\ UNCHANGED resp
    /\ UNCHANGED <<discountField, dbVars, gwVars, histVars, quoteVars, shipVars>>

\* ======================================================================
\* check_payment_status (views.py:467-523)
\* ======================================================================
\* views.py:480-490: the order is read
StartCheckPaymentStatus(p, o) ==
    /\ CanStart(p)
    /\ Visible(o)
    /\ nreq' = nreq + 1
    /\ loc' = [loc EXCEPT ![p] = [NoLoc EXCEPT !.h = "check_payment_status",
                                               !.o = o, !.mem = orders[o]]]
    /\ pc' = [pc EXCEPT ![p] = IF AlreadyPaid(orders[o])
                               THEN "ap_payment" ELSE "cs_gateway"]
    /\ UNCHANGED <<discountField, dbVars, gwVars, resp, histVars, quoteVars, shipVars>>

\* views.py:494-513: client.order.payments; a captured payment is applied
CsGateway(p) ==
    /\ pc[p] = "cs_gateway"
    /\ IF "captured" \in gwPay[loc[p].o]
       THEN /\ pc' = [pc EXCEPT ![p] = "hp_save"]
            /\ UNCHANGED resp
       ELSE Finish(p, Response(200, "NotYetCompleted"))
    /\ UNCHANGED <<discountField, dbVars, gwVars, loc, nreq, histVars, quoteVars, shipVars>>

\* ======================================================================
\* razorpay_webhook (views.py:525-656)
\* ======================================================================
WebhookEvents == {"payment.captured", "payment.failed", "order.paid"}

\* the gateway sends an event only for something that happened there
Delivers(o, ev) ==
    IF ev = "payment.failed" THEN "failed" \in gwPay[o] ELSE "captured" \in gwPay[o]

\* views.py:594: payment.failed is applied unless the order is already failed
FailedApplies(row) == row.status # "failed"

\* the X-Razorpay-Signature header of a request: the HMAC-SHA256 of the body
\* under the webhook secret, another value, or no header
WebhookSignatures == {"valid", "wrong", "missing"}

\* settings.py:253: the deployment sets RAZORPAY_WEBHOOK_SECRET
WebhookSecretSet == TRUE

\* the webhook without its signature check
WebhookAuthentic_Always(sig) == TRUE

\* views.py:534-552: with RAZORPAY_WEBHOOK_SECRET set the header must be
\* there and equal the digest of the body; without a secret nothing is checked
WebhookAuthentic(sig) == ~WebhookSecretSet \/ sig = "valid"

\* views.py:534-567, 586-591, 625-631: the signature is checked, the event is
\* parsed and the order read
StartWebhook(p, o, ev, sig) ==
    /\ CanStart(p)
    /\ Visible(o)
    /\ Delivers(o, ev)
    /\ nreq' = nreq + 1
    /\ loc' = [loc EXCEPT ![p] = [NoLoc EXCEPT !.h = "razorpay_webhook", !.o = o,
                                               !.ev = ev, !.sig = sig,
                                               !.mem = IF WebhookAuthentic(sig)
                                                       THEN orders[o] ELSE NoOrder]]
    /\ IF ~WebhookAuthentic(sig)
       THEN Finish(p, Response(400, IF sig = "missing" THEN "MissingSignature"
                                                      ELSE "InvalidSignature"))
       ELSE IF ev = "payment.captured" /\ ~AlreadyPaid(orders[o])
       THEN pc' = [pc EXCEPT ![p] = "hp_save"] /\ UNCHANGED resp
       ELSE IF ev = "order.paid" /\ ~AlreadyPaid(orders[o])
       THEN pc' = [pc EXCEPT ![p] = "wo_gateway"] /\ UNCHANGED resp
       ELSE IF ev = "payment.failed" /\ FailedApplies(orders[o])
       THEN pc' = [pc EXCEPT ![p] = "wf_save"] /\ UNCHANGED resp
       ELSE Finish(p, Response(200, "success"))
    /\ UNCHANGED <<discountField, dbVars, gwVars, histVars, quoteVars, shipVars>>

\* views.py:633-641: order.paid asks the gateway for the captured payment
WoGateway(p) ==
    /\ pc[p] = "wo_gateway"
    /\ IF "captured" \in gwPay[loc[p].o]
       THEN /\ pc' = [pc EXCEPT ![p] = "hp_save"]
            /\ UNCHANGED resp
       ELSE Finish(p, Response(200, "success"))
    /\ UNCHANGED <<discountField, dbVars, gwVars, loc, nreq, histVars, quoteVars, shipVars>>

\* views.py:595-605: order.status = 'failed'; order.save().  The test that
\* follows compares the status just written with 'created', so
\* restore_order_stock is never called here.
WfSave(p) ==
    /\ pc[p] = "wf_save"
    /\ LET row == OrderSave([loc[p].mem EXCEPT !.status = "failed"])
       IN  /\ orders' = [orders EXCEPT ![loc[p].o] = row]
           /\ loc' = [loc EXCEPT ![p].mem = row]
    /\ pc' = [pc EXCEPT ![p] = "wf_payment"]
    /\ UNCHANGED <<discountField, stock, items, payments, cart, gwVars, resp, nreq,
                   histVars, quoteVars, shipVars>>

\* views.py:608-614: Payment.objects.create(status='failed'); a row already
\* there for the order makes it raise IntegrityError, answered 400 (654-656)
WfPayment(p) ==
    /\ pc[p] = "wf_payment"
    /\ IF CanInsertPayment(loc[p].o)
       THEN /\ payments' = [payments EXCEPT ![loc[p].o] = Append(@, [status |-> "failed"])]
            /\ Finish(p, Response(200, "success"))
       ELSE /\ Finish(p, Response(400, "WebhookError"))
            /\ UNCHANGED payments
    /\ UNCHANGED <<discountField, stock, orders, items, cart, gwVars, loc, nreq,
                   histVars, quoteVars, shipVars>>

\* ======================================================================
\* cancel_order (views.py:680-709)
\* ======================================================================
\* views.py:687-693: the order is read; a paid order is refused
StartCancelOrder(p, o) ==
    /\ CanStart(p)
    /\ Visible(o)
    /\ nreq' = nreq + 1
    /\ loc' = [loc EXCEPT ![p] = [NoLoc EXCEPT !.h = "cancel_order", !.o = o,
                                               !.mem = orders[o]]]
    /\ IF AlreadyPaid(orders[o])
       THEN Finish(p, Response(400, "CannotCancelPaidOrder"))
       ELSE pc' = [pc EXCEPT ![p] = "cn_save"] /\ UNCHANGED resp
    /\ UNCHANGED <<discountField, dbVars, gwVars, histVars, quoteVars, shipVars>>

\* views.py:695-699: order.status = 'cancelled'; order.save(); then the call
\* of restore_order_stock, a name views.py neither defines nor imports:
\* NameError, which the handler does not catch (it catches Order.DoesNotExist
\* only), so the request is answered 500
CnSave(p) ==
    /\ pc[p] = "cn_save"
    /\ LET row == OrderSave([loc[p].mem EXCEPT !.status = "cancelled"])
       IN  /\ orders' = [orders EXCEPT ![loc[p].o] = row]
           /\ loc' = [loc EXCEPT ![p].mem = row]
    /\ Finish(p, Response(500, "NameError"))
    /\ UNCHANGED <<discountField, stock, items, payments, cart, gwVars, nreq,
                   histVars, quoteVars, shipVars>>

\* ======================================================================
\* Specifications
\* ======================================================================
Step(p) ==
    \/ Return(p)
    \/ CrQuote(p) \/ CrGateway(p) \/ CrOrder(p) \/ CrItems(p)
    \/ HpSave(p) \/ HpPayment(p) \/ DsRead(p) \/ DsWrite(p) \/ HpCart(p)
    \/ ApPayment(p) \/ CsGateway(p) \/ WoGateway(p)
    \/ WfSave(p) \/ WfPayment(p) \/ CnSave(p)

Start(p) ==
    \/ \E req \in Requests, key \in BOOLEAN, pin \in BOOLEAN :
           StartCreateOrder(p, req, key, pin)
    \/ \E o \in Orders, sigOk \in BOOLEAN : StartVerifyPayment(p, o, sigOk)
    \/ \E o \in Orders : StartCheckPaymentStatus(p, o)
    \/ \E o \in Orders, ev \in WebhookEvents, sig \in WebhookSignatures :
           StartWebhook(p, o, ev, sig)
    \/ \E o \in Orders : StartCancelOrder(p, o)

Environment ==
    \/ \E o \in Orders : AttemptFails(o)
    \/ \E o \in Orders : AttemptCaptured(o)
    \/ AddToCart

\* ======================================================================
\* The shipping quote on its own
\* ======================================================================
RECURSIVE SeqsUpTo(_, _)
SeqsUpTo(S, n) ==
    IF n = 0 THEN {<<>>}
    ELSE LET shorter == SeqsUpTo(S, n - 1)
         IN  shorter \cup {Append(t, x) : t \in shorter, x \in S}

\* answers of the serviceability endpoint
QuoteInputs == [ok : BOOLEAN, couriers : SeqsUpTo(Courier, MaxCouriers),
                rid : {0} \cup CourierIds]

\* an answer of the aggregator arrives
QuoteInit ==
    /\ InitStore
    /\ quoteIn \in QuoteInputs
    /\ quoteOut = <<>>

\* calculate_shipping_charges is called on it
Quote ==
    /\ quoteOut = <<>>
    /\ quoteOut' = <<calculate_shipping_charges(quoteIn)>>
    /\ UNCHANGED <<discountField, dbVars, gwVars, procVars, histVars, quoteIn, shipVars>>

QuoteSpec == QuoteInit /\ [][Quote]_vars

\* ======================================================================
\* Shipment webhook (webhook_handler.py)
\* ======================================================================
\* "event" of a request ("none": the key is missing); PICKUP_SCHEDULED stands
\* for the events event_map does not list
ShipEvents == {"none", "AWB_GENERATED", "ORDER_STATUS_UPDATE", "OUT_FOR_DELIVERY",
               "DELIVERED", "CANCELED", "PICKUP_SCHEDULED"}

\* "status" of a request ("none": the key is missing)
PayloadStatuses == {"none", "shipped", "in_transit", "delivered", "rto", "Picked Up"}

\* "delivered_at" of a request (0: missing or not an ISO timestamp)
Timestamps == {0, 1, 2}

\* a request carries the fields the handler of its event reads; known: an
\* Order row carries the request's order_id as shiprocket_order_id
ShipRequests ==
    {e \in [event : ShipEvents, status : PayloadStatuses, ts : Timestamps,
            known : BOOLEAN] :
        /\ e.event \notin {"ORDER_STATUS_UPDATE", "OUT_FOR_DELIVERY"} => e.status = "none"
        /\ e.event # "DELIVERED" => e.ts = 0}

\* webhook_handler.py:184-193
status_map ==
    [s \in {"processing", "ready_to_ship", "shipped", "in_transit",
            "out_for_delivery", "delivered", "rto", "cancelled"} |->
        IF s = "ready_to_ship" THEN "processing"
        ELSE IF s = "rto" THEN "returned"
        ELSE s]

\* status_map.get(status, status)
mapped_status(status) ==
    IF status \in DOMAIN status_map THEN status_map[status] ELSE status

\* datetime.now(): later than every timestamp a request carries
Now == 10 + shipCount

\* the request is recorded and answered
ShipAnswer(e, code) ==
    /\ shipCount < MaxShipEvents
    /\ shipCount' = shipCount + 1
    /\ shipLast' = e
    /\ shipResp' = code
    /\ UNCHANGED <<discountField, dbVars, gwVars, procVars, histVars, quoteVars, fulVars>>

\* webhook_handler.py:393: GET is answered 200; 399-403: the body of a POST
\* is parsed with json.loads, which raises JSONDecodeError on an empty body,
\* answered 400
ShipmentProbe(m) ==
    /\ m \in {"GET", "EMPTY_BODY"}
    /\ ShipAnswer([NoShipEvent EXCEPT !.event = m], IF m = "GET" THEN 200 ELSE 400)
    /\ UNCHANGED <<shipStatus, deliveredAt, trackingLog>>

\* order.tracking_data['tracking_data'].append(...) of the handlers
Logged(log) == Append(log, shipCount + 1)

\* webhook_handler.py:223-225: only the last 50 tracking updates are kept
LastUpdates(log) ==
    IF Len(log) > TRACKING_LIMIT
    THEN SubSeq(log, Len(log) - TRACKING_LIMIT + 1, Len(log))
    ELSE log

\* webhook_handler.py:408-441: a request without event or for an order_id no
\* Order carries is answered 400, an event event_map does not list 202
ShipmentRejected(e) ==
    /\ \/ e.event \in {"none", "PICKUP_SCHEDULED"}
       \/ ~e.known
    /\ ShipAnswer(e, IF e.event = "none" THEN 400
                     ELSE IF e.event = "PICKUP_SCHEDULED" THEN 202
                     ELSE 400)
    /\ UNCHANGED <<shipStatus, deliveredAt, trackingLog>>

\* handle_shipment_generated (webhook_handler.py:76-146)
ShipmentGenerated(e) ==
    /\ e.event = "AWB_GENERATED" /\ e.known
    /\ shipStatus' = "shipped"
    /\ trackingLog' = Logged(trackingLog)
    /\ UNCHANGED deliveredAt
    /\ ShipAnswer(e, 200)

\* handle_shipment_status (webhook_handler.py:149-232)
ShipmentStatus(e) ==
    /\ e.event \in {"ORDER_STATUS_UPDATE", "OUT_FOR_DELIVERY"} /\ e.known
    /\ shipStatus' = IF e.status # "none" THEN mapped_status(e.status)
                     ELSE shipStatus
    /\ trackingLog' = LastUpdates(Logged(trackingLog))
    /\ UNCHANGED deliveredAt
    /\ ShipAnswer(e, 200)

\* the delivery handler writing delivered_at on every delivered event
KeepsDeliveredAt_Never(current) == FALSE

\* webhook_handler.py:291: delivered_at is written only while it is null
KeepsDeliveredAt(current) == current # 0

\* handle_shipment_delivered (webhook_handler.py:235-319)
ShipmentDelivered(e) ==
    /\ e.event = "DELIVERED" /\ e.known
    /\ shipStatus' = "delivered"
    /\ deliveredAt' = IF KeepsDeliveredAt(deliveredAt) THEN deliveredAt
                      ELSE IF e.ts # 0 THEN e.ts ELSE Now
    /\ trackingLog' = Logged(trackingLog)
    /\ ShipAnswer(e, 200)

\* handle_shipment_cancelled (webhook_handler.py:322-383)
ShipmentCancelled(e) ==
    /\ e.event = "CANCELED" /\ e.known
    /\ shipStatus' = "cancelled"
    /\ trackingLog' = Logged(trackingLog)
    /\ UNCHANGED deliveredAt
    /\ ShipAnswer(e, 200)

\* shiprocket_webhook (webhook_handler.py:386-450), POST
ShipNext ==
    \/ \E m \in {"GET", "EMPTY_BODY"} : ShipmentProbe(m)
    \/ \E e \in ShipRequests :
        \/ ShipmentRejected(e)
        \/ ShipmentGenerated(e)
        \/ ShipmentStatus(e)
        \/ ShipmentDelivered(e)
        \/ ShipmentCancelled(e)

\* the order the aggregator ships: one unit of product 2, paid, quoted 50.005
ShippedItems == [p \in Products |-> IF p = 2 THEN 1 ELSE 0]

ShippedOrder == OrderSave([NewOrderRow(ShippedItems, 50005) EXCEPT !.status = PaidStatus])

\* the tracking log at the start: empty, or holding TRACKING_LIMIT updates of
\* status requests received earlier
PriorLogs == {<<>>, [i \in 1..TRACKING_LIMIT |-> 0]}

\* order 1 is paid: the state handle_successful_payment leaves
PaidOrderStore ==
    /\ discountField = TRUE
    /\ stock = [p \in Products |-> OpeningStock(p) - ShippedItems[p]]
    /\ orders = [o \in Orders |-> IF o = 1 THEN ShippedOrder ELSE NoOrder]
    /\ items = [o \in Orders |-> IF o = 1 THEN ShippedItems ELSE ZeroItems]
    /\ payments = [o \in Orders |-> IF o = 1 THEN <<[status |-> "captured"]>> ELSE <<>>]
    /\ cart = FALSE
    /\ gwPay = [o \in Orders |-> IF o = 1 THEN {"captured"} ELSE {}]
    /\ gwAmount = [o \in Orders |->
                     IF o = 1 THEN AmountInPaise(Subtotal(ShippedItems) + 50005) ELSE 0]
    /\ gwOrders = <<AmountInPaise(Subtotal(ShippedItems) + 50005)>>
    /\ pc = [p \in Procs |-> "idle"]
    /\ loc = [p \in Procs |-> NoLoc]
    /\ resp = [p \in Procs |-> NoResp]
    /\ nreq = 2
    /\ debits = [o \in Orders |-> [p \in Products |-> IF o = 1 THEN ShippedItems[p] ELSE 0]]
    /\ cartClears = [o \in Orders |-> IF o = 1 THEN 1 ELSE 0]
    /\ quoteIn = [ok |-> FALSE, couriers |-> <<>>, rid |-> 0]
    /\ quoteOut = <<>>

\* order 1 is paid and create_shiprocket_order_async has registered it with
\* the aggregator (views.py:755-765): shipping_status is 'processing'
ShipInit ==
    /\ PaidOrderStore
    /\ shipStatus = "processing"
    /\ deliveredAt = 0
    /\ shipLast = NoShipEvent
    /\ shipResp = 0
    /\ shipCount = 0
    /\ trackingLog \in PriorLogs
    /\ shiprocketId = 1
    /\ aggOrders = 1
    /\ aggUp = TRUE
    /\ tpc = "done"
    /\ tmem = [id |-> 1, status |-> "processing"]
    /\ cpc = "idle"
    /\ cmem = NoShipMem
    /\ cresp = NoShipCall
    /\ ncalls = 0

\* shipment webhook requests handled one after the other
ShipSpec == ShipInit /\ [][ShipNext]_vars

\* ======================================================================
\* Shipment creation and cancellation (views.py:720-772, 835-956)
\* ======================================================================
\* what a step of this part leaves alone
FulfilmentFrame ==
    UNCHANGED <<discountField, dbVars, gwVars, procVars, histVars, quoteVars,
                deliveredAt, shipLast, shipResp, shipCount, trackingLog>>

\* the aggregator starts accepting create-order calls
AggregatorRecovers ==
    /\ ~aggUp
    /\ aggUp' = TRUE
    /\ UNCHANGED <<shipStatus, shiprocketId, aggOrders, tpc, tmem, cpc, cmem, cresp, ncalls>>
    /\ FulfilmentFrame

\* ------------------------------------------ create_shiprocket_order_async
\* views.py:725: order = Order.objects.get(id=order_id)
TaskLoad ==
    /\ tpc = "t_load"
    /\ tmem' = [id |-> shiprocketId, status |-> shipStatus]
    /\ tpc' = "t_create"
    /\ UNCHANGED <<shipStatus, shiprocketId, aggOrders, aggUp, cpc, cmem, cresp, ncalls>>
    /\ FulfilmentFrame

\* views.py:751-769: create_shiprocket_order_from_django_order is called
\* whatever the order's status and shiprocket_order_id are; the id answered
\* and 'processing', or 'failed', are set on the object in memory
TaskCreate ==
    /\ tpc = "t_create"
    /\ IF aggUp
       THEN /\ aggOrders' = aggOrders + 1
            /\ tmem' = [id |-> aggOrders + 1, status |-> "processing"]
       ELSE /\ tmem' = [tmem EXCEPT !.status = "failed"]
            /\ UNCHANGED aggOrders
    /\ tpc' = "t_save"
    /\ UNCHANGED <<shipStatus, shiprocketId, aggUp, cpc, cmem, cresp, ncalls>>
    /\ FulfilmentFrame

\* views.py:765, 770: order.save() writes the object; the thread ends
TaskSave ==
    /\ tpc = "t_save"
    /\ shiprocketId' = tmem.id
    /\ shipStatus' = tmem.status
    /\ tpc' = "done"
    /\ UNCHANGED <<aggOrders, aggUp, tmem, cpc, cmem, cresp, ncalls>>
    /\ FulfilmentFrame

\* ------------------------------------------------------ create_shipment
\* the shipment request is answered
ShipCallAnswer(h, code) ==
    /\ cpc' = "done"
    /\ cresp' = [h |-> h, code |-> code]

\* views.py:843-864, 895-902: the order is read; an order that is not paid is
\* refused, one with a shiprocket_order_id is answered as existing
StartCreateShipment ==
    /\ cpc = "idle"
    /\ ncalls < MaxShipCalls
    /\ ncalls' = ncalls + 1
    /\ cmem' = [id |-> shiprocketId, status |-> shipStatus]
    /\ IF orders[1].status # "paid"
       THEN ShipCallAnswer("create_shipment", 400)
       ELSE IF shiprocketId # 0
       THEN ShipCallAnswer("create_shipment", 200)
       ELSE cpc' = "cs_create" /\ cresp' = [h |-> "create_shipment", code |-> 0]
    /\ UNCHANGED <<shipStatus, shiprocketId, aggOrders, aggUp, tpc, tmem>>
    /\ FulfilmentFrame

\* views.py:864-894: the aggregator is called; a refusal is answered 500 and
\* nothing is written
CreateShipmentCall ==
    /\ cpc = "cs_create"
    /\ IF aggUp
       THEN /\ aggOrders' = aggOrders + 1
            /\ cmem' = [id |-> aggOrders + 1, status |-> "processing"]
            /\ cpc' = "cs_save"
            /\ UNCHANGED cresp
       ELSE /\ ShipCallAnswer("create_shipment", 500)
            /\ UNCHANGED <<aggOrders, cmem>>
    /\ UNCHANGED <<shipStatus, shiprocketId, aggUp, tpc, tmem, ncalls>>
    /\ FulfilmentFrame

\* views.py:868-886: order.save() and the answer
CreateShipmentSave ==
    /\ cpc = "cs_save"
    /\ shiprocketId' = cmem.id
    /\ shipStatus' = cmem.status
    /\ ShipCallAnswer("create_shipment", 200)
    /\ UNCHANGED <<aggOrders, aggUp, tpc, tmem, cmem, ncalls>>
    /\ FulfilmentFrame

\* ------------------------------------------------------ cancel_shipment
\* views.py:921-929: the order is read; without shiprocket_order_id, 400
StartCancelShipment ==
    /\ cpc = "idle"
    /\ ncalls < MaxShipCalls
    /\ ncalls' = ncalls + 1
    /\ cmem' = [id |-> shiprocketId, status |-> shipStatus]
    /\ IF shiprocketId = 0
       THEN ShipCallAnswer("cancel_shipment", 400)
       ELSE cpc' = "cx_call" /\ cresp' = [h |-> "cancel_shipment", code |-> 0]
    /\ UNCHANGED <<shipStatus, shiprocketId, aggOrders, aggUp, tpc, tmem>>
    /\ FulfilmentFrame

\* views.py:931-948, shiprocket_service.py:290-316: the aggregator's cancel
\* call is made whatever the shipping_status read; accepted is its answer
CancelShipmentCall(accepted) ==
    /\ cpc = "cx_call"
    /\ IF accepted
       THEN cpc' = "cx_save" /\ UNCHANGED cresp
       ELSE ShipCallAnswer("cancel_shipment", 500)
    /\ UNCHANGED <<shipStatus, shiprocketId, aggOrders, aggUp, tpc, tmem, cmem, ncalls>>
    /\ FulfilmentFrame

\* views.py:934-941: shipping_status = 'cancelled'; order.save()
CancelShipmentSave ==
    /\ cpc = "cx_save"
    /\ shiprocketId' = cmem.id
    /\ shipStatus' = "cancelled"
    /\ ShipCallAnswer("cancel_shipment", 200)
    /\ UNCHANGED <<aggOrders, aggUp, tpc, tmem, cmem, ncalls>>
    /\ FulfilmentFrame

\* the response is sent
ShipCallReturn ==
    /\ cpc = "done"
    /\ cpc' = "idle"
    /\ cmem' = NoShipMem
    /\ UNCHANGED <<shipStatus, shiprocketId, aggOrders, aggUp, tpc, tmem, cresp, ncalls>>
    /\ FulfilmentFrame

\* the steps of the background thread
TaskStep == TaskLoad \/ TaskCreate \/ TaskSave

\* the steps of a shipment request that has started
ShipCallStep ==
    \/ CreateShipmentCall \/ CreateShipmentSave
    \/ \E accepted \in BOOLEAN : CancelShipmentCall(accepted)
    \/ CancelShipmentSave
    \/ ShipCallReturn

FulfilNext ==
    \/ TaskStep
    \/ AggregatorRecovers
    \/ StartCreateShipment \/ CreateShipmentCall \/ CreateShipmentSave
    \/ StartCancelShipment
    \/ \E accepted \in BOOLEAN : CancelShipmentCall(accepted)
    \/ CancelShipmentSave
    \/ ShipCallReturn

\* order 1 has just been paid: handle_successful_payment has started the
\* thread running create_shiprocket_order_async (views.py:68-78)
FulfilInit ==
    /\ PaidOrderStore
    /\ shipStatus = "pending"
    /\ deliveredAt = 0
    /\ shipLast = NoShipEvent
    /\ shipResp = 0
    /\ shipCount = 0
    /\ trackingLog = <<>>
    /\ shiprocketId = 0
    /\ aggOrders = 0
    /\ aggUp \in BOOLEAN
    /\ tpc = "t_load"
    /\ tmem = NoShipMem
    /\ cpc = "idle"
    /\ cmem = NoShipMem
    /\ cresp = NoShipCall
    /\ ncalls = 0

\* the background thread and the shipment requests of the client, interleaved
FulfilSpec == FulfilInit /\ [][FulfilNext]_vars

\* the thread keeps running, the aggregator comes to accept and a request
\* that has started is served to its end; nothing obliges a client to send a
\* request
FulfilFairSpec ==
    /\ FulfilSpec
    /\ WF_vars(TaskStep)
    /\ WF_vars(AggregatorRecovers)
    /\ WF_vars(ShipCallStep)

\* requests served concurrently by the workers of Procs
Next ==
    \/ \E p \in Procs : (nreq < MaxConcurrent /\ Start(p)) \/ Step(p)
    \/ Environment

Spec == Init /\ [][Next]_vars

\* ----------------------------------------------- two orders awaiting payment
\* two units of product 2, all of its opening stock
ContendedItems == [p \in Products |-> IF p = 2 THEN 2 ELSE 0]

ContendedOrder == OrderSave(NewOrderRow(ContendedItems, 50005))

\* two create_order requests were served, each for ContendedItems:
\* create_order debits no stock, so both were accepted
PayInit ==
    /\ discountField = TRUE
    /\ stock = [p \in Products |-> OpeningStock(p)]
    /\ orders = [o \in Orders |-> ContendedOrder]
    /\ items = [o \in Orders |-> ContendedItems]
    /\ payments = [o \in Orders |-> <<>>]
    /\ cart = TRUE
    /\ gwPay = [o \in Orders |-> {}]
    /\ gwAmount = [o \in Orders |-> AmountInPaise(Subtotal(ContendedItems) + 50005)]
    /\ gwOrders = [i \in 1..2 |-> AmountInPaise(Subtotal(ContendedItems) + 50005)]
    /\ pc = [p \in Procs |-> "idle"]
    /\ loc = [p \in Procs |-> NoLoc]
    /\ resp = [p \in Procs |-> NoResp]
    /\ nreq = 2
    /\ debits = [o \in Orders |-> [p \in Products |-> 0]]
    /\ cartClears = [o \in Orders |-> 0]
    /\ quoteIn = [ok |-> FALSE, couriers |-> <<>>, rid |-> 0]
    /\ quoteOut = <<>>
    /\ shipStatus = "pending"
    /\ deliveredAt = 0
    /\ shipLast = NoShipEvent
    /\ shipResp = 0
    /\ shipCount = 0
    /\ trackingLog = <<>>
    /\ NoFulfilment

\* the requests that apply a payment
PayStart(p) ==
    \/ \E o \in Orders, sigOk \in BOOLEAN : StartVerifyPayment(p, o, sigOk)
    \/ \E o \in Orders : StartCheckPaymentStatus(p, o)
    \/ \E o \in Orders, ev \in WebhookEvents, sig \in WebhookSignatures :
           StartWebhook(p, o, ev, sig)

PayStep(p) ==
    \/ Return(p)
    \/ HpSave(p) \/ HpPayment(p) \/ DsRead(p) \/ DsWrite(p) \/ HpCart(p)
    \/ ApPayment(p) \/ CsGateway(p) \/ WoGateway(p)
    \/ WfSave(p) \/ WfPayment(p)

PayNext ==
    \/ \E p \in Procs : (nreq < MaxRequests /\ PayStart(p)) \/ PayStep(p)
    \/ Environment

\* payments of the two orders served concurrently by the workers of Procs
PaySpec == PayInit /\ [][PayNext]_vars

\* requests served one after the other by a single worker
NoneActive == \A p \in Procs : Idle(p)

SeqNext ==
    \/ nreq < MaxRequests /\ NoneActive /\ Start(1)
    \/ Step(1)
    \/ NoneActive /\ Environment

SeqSpec == Init /\ [][SeqNext]_vars

\* ======================================================================
\* Properties
\* ======================================================================
Done(p, h) == pc[p] = "done" /\ loc[p].h = h

\* worker p takes a step
Moves(p) == pc'[p] # pc[p]

\* ---------------------------------------------------------------- C1
\* C1: however verify_payment, check_payment_status and the webhook
\* interleave on an order, its stock debit is written at most once per
\* product and the cart is cleared at most once on its behalf.
C1_SideEffectsAtMostOnce ==
    \A o \in Orders :
        /\ cartClears[o] <= 1
        /\ \A k \in Products : debits[o][k] <= 1

\* ---------------------------------------------------------------- C2
CapturedDelivery(p) ==
    /\ Done(p, "razorpay_webhook")
    /\ loc[p].sig = "valid"
    /\ loc[p].ev = "payment.captured"
    /\ gwPay[loc[p].o] = {"captured"}

C2_AfterDelivery ==
    \A p \in Procs :
        CapturedDelivery(p) =>
            LET o == loc[p].o
            IN  /\ orders[o].status = "paid"
                /\ Len(payments[o]) = 1
                /\ payments[o][1].status = "captured"
                /\ cartClears[o] <= 1
                /\ \A k \in Lines(items[o]) : debits[o][k] <= 1
                /\ \/ /\ cartClears[o] = 1
                      /\ \A k \in Lines(items[o]) : debits[o][k] = 1
                   \/ /\ cartClears[o] = 0
                      /\ \E k \in Lines(items[o]) :
                            debits[o][k] = 0 /\ stock[k] < items[o][k]

\* a delivery of payment.captured for an order that is paid changes nothing
\* and is answered 200
C2_SecondDelivery ==
    \A p \in Procs :
        ( /\ pc[p] = "idle" /\ Moves(p)
          /\ loc'[p].h = "razorpay_webhook"
          /\ loc'[p].sig = "valid"
          /\ loc'[p].ev = "payment.captured"
          /\ orders[loc'[p].o].status = "paid" )
        => /\ UNCHANGED <<dbVars, histVars>>
           /\ pc'[p] = "done"
           /\ resp'[p].code = 200

BadSignature(p) == loc[p].h = "verify_payment" /\ ~loc[p].sigOk

\* C3: a verify_payment request whose signature does not verify is answered
\* 400 InvalidSignature at once, and no step of it changes an order, a
\* Payment row, the stock or the cart.
C3_BadSignatureRejected ==
    [][\A p \in Procs :
          /\ (pc[p] = "idle" /\ Moves(p) /\ loc'[p].h = "verify_payment"
                 /\ ~loc'[p].sigOk)
             => /\ pc'[p] = "done"
                /\ resp'[p] = Response(400, "InvalidSignature")
                /\ UNCHANGED <<dbVars, histVars>>
          /\ (BadSignature(p) /\ Moves(p)) => UNCHANGED <<dbVars, histVars>>
      ]_vars

\* a tampered verify_payment was answered for an order awaiting payment
C3_Witness ==
    \E p \in Procs :
        /\ Done(p, "verify_payment")
        /\ ~loc[p].sigOk
        /\ resp[p].code = 400
        /\ orders[loc[p].o].status = "created"
        /\ payments[loc[p].o] = <<>>

\* ---------------------------------------------------------------- C4
\* C4: with stock 2, two concurrent create_order requests for quantity 2 of
\* the product do not both succeed.
C4_NotBothSucceed ==
    ~ ( /\ stock[2] = 2
        /\ \A p \in Procs :
              /\ Done(p, "create_order")
              /\ loc[p].req[2] = 2
              /\ resp[p].code = 200 )

\* ---------------------------------------------------------------- C5
\* C5: an order's status becomes failed only from created or attempted; a
\* paid order keeps its status when payment.failed arrives.
C5_FailedOnlyFromUnpaid ==
    [][\A o \in Orders :
          (orders'[o].status = "failed" /\ orders[o].status # "failed")
          => orders[o].status \in {"created", "attempted"}
      ]_vars

\* ---------------------------------------------------------------- C6
\* C6: cancel_order on an order that is not paid is answered with success
\* and leaves the order cancelled.
C6_CancelUnpaidSucceeds ==
    \A p \in Procs :
        (Done(p, "cancel_order") /\ loc[p].mem.status # "paid")
        => /\ resp[p].code = 200
           /\ orders[loc[p].o].status = "cancelled"

\* ---------------------------------------------------------------- C7
\* C7: no step moves a paid order to cancelled, also while cancel_order
\* runs concurrently with a payment capture.
C7_PaidNeverCancelled ==
    [][\A o \in Orders :
          orders[o].status = "paid" => orders'[o].status # "cancelled"
      ]_vars

\* ---------------------------------------------------------------- C8
\* C8: every stored Order has total_amount = subtotal + shipment_charge.
C8_TotalIsSum ==
    \A o \in Orders :
        Exists(o) =>
            orders[o].total_amount = orders[o].subtotal + orders[o].shipment_charge

\* an order created with another charge than the stored one, saved again
\* by the paid transition
C8_Witness ==
    \E o \in Orders :
        /\ orders[o].status = "paid"
        /\ orders[o].amount # orders[o].total_amount
        /\ orders[o].total_amount > 0
        /\ orders[o].total_amount = orders[o].subtotal + orders[o].shipment_charge

LeastPositiveRate(couriers) ==
    CHOOSE r \in {compute_rate(couriers[i]) : i \in ValidCouriers(couriers)} :
        \A i \in ValidCouriers(couriers) : r <= compute_rate(couriers[i])

\* C10: the recommended courier is picked only if its computed rate is
\* positive; otherwise the quote is the least positive computed rate.
C10_RecommendedOnlyIfPositive ==
    (quoteOut # <<>> /\ quoteIn.ok /\ quoteIn.couriers # <<>>) =>
        LET out == quoteOut[1]
            couriers == quoteIn.couriers
        IN  IF /\ quoteIn.rid # 0
               /\ \E i \in ValidCouriers(couriers) : couriers[i].id = quoteIn.rid
            THEN out.success /\ out.courier = quoteIn.rid /\ out.rate > 0
            ELSE IF ValidCouriers(couriers) # {}
            THEN out.success /\ out.rate = LeastPositiveRate(couriers)
            ELSE TRUE

\* --------------------------------------------------------------- C11
\* C11: a quote that reports success carries a rate above zero, and a
\* serviceability answer without any courier of positive computed rate is
\* answered with failure.
C11_SuccessRatePositive ==
    quoteOut # <<>> =>
        /\ quoteOut[1].success => quoteOut[1].rate > 0
        /\ ValidCouriers(quoteIn.couriers) = {} => ~quoteOut[1].success

\* --------------------------------------------------------------- C12
\* n is total (thousandths of a rupee) in paise, rounded half up
RoundsHalfUp(n, total) == n * 10 <= total + 5 /\ total + 5 < n * 10 + 10

\* a create_order past its gateway call handed the gateway the rounded total
\* of its subtotal and quoted charge, and the gateway was never handed less
\* than 100 paise
C12_HandedAmount ==
    /\ \A i \in 1..Len(gwOrders) : gwOrders[i] >= 100
    /\ \A p \in Procs :
          ( \/ pc[p] \in {"cr_order", "cr_items"}
            \/ Done(p, "create_order") /\ resp[p].body \in {"OrderCreated", "FailedToCreateOrder"} )
          => /\ gwOrders # <<>>
             /\ RoundsHalfUp(gwOrders[Len(gwOrders)],
                             Subtotal(loc[p].req) + loc[p].ship)

\* the step of create_order that computes the amount either goes on to the
\* gateway with the rounded amount, 100 or more, or answers 400 and leaves
\* the database and the gateway as they were
C12_AmountStep ==
    \A p \in Procs :
        (pc[p] = "cr_quote" /\ Moves(p)) =>
            \/ /\ pc'[p] = "cr_gateway"
               /\ RoundsHalfUp(loc'[p].paise, Subtotal(loc[p].req) + loc'[p].ship)
               /\ loc'[p].paise >= 100
               /\ UNCHANGED <<dbVars, gwVars>>
            \/ /\ pc'[p] = "done"
               /\ resp'[p].code = 400
               /\ UNCHANGED <<dbVars, gwVars>>

\* C12: the amount create_order hands to the gateway is subtotal + shipment
\* charge in paise rounded half up; an amount below 100 is answered 400
\* without a gateway call and without an Order row.
C12_RoundedAmount == []C12_HandedAmount /\ [][C12_AmountStep]_vars

\* an amount below 100 paise was refused after an order whose amount at the
\* gateway was rounded up
C12_Witness ==
    \E p \in Procs :
        /\ Done(p, "create_order")
        /\ resp[p] = Response(400, "AmountTooSmall")
        /\ loc[p].o = 0
        /\ \E o \in Orders :
              /\ Exists(o)
              /\ gwAmount[o] * 10 = orders[o].amount + 10
              /\ gwOrders = <<gwAmount[o]>>

\* --------------------------------------------------------------- C13
\* C13: a create_order request (with a pincode, without idempotency key)
\* one of whose items asks for more than the stock is answered 400
\* InsufficientStock, the details listing exactly the items short of stock.
C13_InsufficientStockListed ==
    \A p \in Procs :
        ( /\ Done(p, "create_order")
          /\ ~loc[p].key /\ loc[p].pin
          /\ stock_validation_errors(loc[p].req) # {} )
        => /\ resp[p].code = 400
           /\ resp[p].body = "InsufficientStock"
           /\ resp[p].details = stock_validation_errors(loc[p].req)

Unauthentic(p) ==
    loc[p].h = "razorpay_webhook" /\ loc[p].sig # "valid"

\* C16: with a webhook secret set, a gateway webhook request whose signature
\* header is missing or is not the digest of the body is answered 4xx at
\* once, whatever its event, and no step of it changes an order, a Payment
\* row, the stock or the cart.
C16_UnsignedWebhookRejected ==
    [][\A p \in Procs :
          /\ (pc[p] = "idle" /\ Moves(p) /\ loc'[p].h = "razorpay_webhook"
                 /\ loc'[p].sig # "valid")
             => /\ pc'[p] = "done"
                /\ resp'[p].code \in 400..499
                /\ UNCHANGED <<dbVars, histVars>>
          /\ (Unauthentic(p) /\ Moves(p)) => UNCHANGED <<dbVars, histVars>>
      ]_vars

\* a payment.captured request with a wrong signature was refused for an order
\* whose payment the gateway has captured and that is still unpaid here
C16_Witness ==
    \E p \in Procs :
        /\ Done(p, "razorpay_webhook")
        /\ Unauthentic(p)
        /\ loc[p].sig = "wrong"
        /\ loc[p].ev = "payment.captured"
        /\ resp[p].code = 400
        /\ orders[loc[p].o].status = "created"
        /\ payments[loc[p].o] = <<>>

\* --------------------------------------------------------------- C17
\* C17: the gateway webhook answers a well-formed authentic event with a
\* 4xx response never, also when processing fails after the order was
\* marked paid.
C17_AuthenticEventNot4xx ==
    \A p \in Procs :
        ( /\ Done(p, "razorpay_webhook")
          /\ loc[p].sig = "valid" )
        => resp[p].code \notin 400..499

\* the database of ShipInit, as the payment handlers leave it
ShipInitReached ==
    /\ orders[1] = ShippedOrder
    /\ items[1] = ShippedItems
    /\ payments[1] = <<[status |-> "captured"]>>
    /\ stock = [p \in Products |-> OpeningStock(p) - ShippedItems[p]]
    /\ ~cart /\ nreq = 2 /\ NoneActive
    /\ gwOrders = <<AmountInPaise(Subtotal(ShippedItems) + 50005)>>
    /\ debits[1] = ShippedItems /\ cartClears[1] = 1

\* --------------------------------------------------------------- C18
PreDelivery == {"pending", "processing", "shipped", "in_transit", "out_for_delivery"}

\* C18: once shipping_status is delivered, no shipment webhook request sets
\* it to a status that comes before delivery.
C18_DeliveredNotRegressed ==
    [][shipStatus = "delivered" => shipStatus' \notin PreDelivery]_vars

\* --------------------------------------------------------------- C19
\* str.lower() on the status strings of PayloadStatuses
Lower(status) == IF status = "Picked Up" THEN "picked up" ELSE status

\* C19: a status request whose status string the mapping table does not
\* list is answered 200 and leaves shipping_status at the lower-cased
\* string.
C19_UnknownStatusLowerCased ==
    ( /\ shipLast.event \in {"ORDER_STATUS_UPDATE", "OUT_FOR_DELIVERY"}
      /\ shipLast.known
      /\ shipLast.status \notin DOMAIN status_map \cup {"none"} )
    => /\ shipResp = 200
       /\ shipStatus = Lower(shipLast.status)

\* --------------------------------------------------------------- C20
\* C20: the first delivered event sets delivered_at (to its timestamp, or to
\* the current time when it carries none), and no later shipment webhook
\* request changes delivered_at.
C20_FirstDeliveredWins ==
    [][ /\ deliveredAt # 0 => deliveredAt' = deliveredAt
        /\ ( /\ deliveredAt = 0
             /\ shipLast'.event = "DELIVERED" /\ shipLast'.known
             /\ shipCount' # shipCount )
           => /\ deliveredAt' # 0
              /\ shipLast'.ts # 0 => deliveredAt' = shipLast'.ts
        /\ deliveredAt' # deliveredAt => shipLast'.event = "DELIVERED"
      ]_vars

\* a second delivered event, carrying another timestamp, was answered 200
\* and delivered_at is still the first one's
C20_Witness ==
    /\ deliveredAt = 1
    /\ shipLast = [event |-> "DELIVERED", status |-> "none", ts |-> 2, known |-> TRUE]
    /\ shipResp = 200
    /\ shipStatus = "delivered"
    /\ shipCount >= 2

\* --------------------------------------------------------------- C22
PaymentEntryPoints == {"verify_payment", "check_payment_status", "razorpay_webhook"}

\* worker p applied a captured payment and the stock debit stopped at a line
\* with less stock than ordered
DebitFailed(p) ==
    /\ pc[p] = "done"
    /\ loc[p].h \in PaymentEntryPoints
    /\ loc[p].k # 0
    /\ stock[loc[p].k] < items[loc[p].o][loc[p].k]

\* C22: when a captured payment is applied and the stock debit fails for a
\* line, the order stays paid with its captured Payment row and the entry
\* point answers its caller with success.
C22_ShortfallReportsSuccess ==
    \A p \in Procs :
        DebitFailed(p) =>
            /\ orders[loc[p].o].status = "paid"
            /\ payments[loc[p].o] = <<[status |-> "captured"]>>
            /\ resp[p].code = 200

\* --------------------------------------------------------------- C27
\* C27: no step of verify_payment, check_payment_status or the gateway
\* webhook moves a cancelled or failed order to paid.
C27_CancelledFailedTerminal ==
    [][\A o \in Orders :
          orders[o].status \in {"cancelled", "failed"} => orders'[o].status # "paid"
      ]_vars

\* --------------------------------------------------------------- C30
\* no request is being handled
Quiescent == \A p \in Procs : pc[p] \in {"idle", "done"}

\* C30: between requests, an order whose status is paid has exactly one
\* Payment row and that row is captured; the already-paid branches of
\* verify_payment and check_payment_status find that row and answer 200.
C30_PaidHasCapturedPayment ==
    /\ Quiescent =>
          \A o \in Orders :
              orders[o].status = "paid" => payments[o] = <<[status |-> "captured"]>>
    /\ \A p \in Procs :
          ( /\ pc[p] = "done"
            /\ loc[p].h \in {"verify_payment", "check_payment_status"}
            /\ resp[p].body \in {"AlreadyPaid", "PaymentLookupFailed"} )
          => resp[p] = Response(200, "AlreadyPaid")

\* an order that had a failed Payment row was paid afterwards, and a later
\* verify_payment took the already-paid branch
C30_Witness ==
    \E p \in Procs :
        /\ Done(p, "verify_payment")
        /\ resp[p] = Response(200, "AlreadyPaid")
        /\ orders[loc[p].o].status = "paid"
        /\ "failed" \in gwPay[loc[p].o]
        /\ payments[loc[p].o] = <<[status |-> "captured"]>>

\* --------------------------------------------------------------- C21
\* C21: a POST to the shipment webhook with an empty body, and a GET, are
\* answered with success and change no order.
C21_ProbeAnsweredSuccess ==
    shipLast.event \in {"GET", "EMPTY_BODY"} =>
        /\ shipResp \in 200..299
        /\ trackingLog = <<>> \/ trackingLog[Len(trackingLog)] # shipCount

\* --------------------------------------------------------------- C28
\* C28: after any sequence of shipment webhook requests the tracking log
\* holds at most 50 entries, the most recently received ones in arrival
\* order.
C28_LogBounded ==
    /\ Len(trackingLog) <= TRACKING_LIMIT
    /\ \A i \in 1..(Len(trackingLog) - 1) : trackingLog[i] <= trackingLog[i + 1]
    /\ (shipResp = 200 /\ shipLast.event \in ShipEvents)
          => trackingLog # <<>> /\ trackingLog[Len(trackingLog)] = shipCount

\* --------------------------------------------------------------- C24
\* C24: over any interleaving of the background shipment task and the
\* create_shipment endpoint, the aggregator creates at most one shipment for
\* the order.
C24_AtMostOneShipment == aggOrders <= 1

\* --------------------------------------------------------------- C25
\* C25: when the aggregator refuses the create-order call, shipping_status
\* becomes failed, the order stays paid and its Payment row is unchanged;
\* when it accepts, the id is stored and shipping_status becomes processing.
C25_FailureMarksFailed ==
    [][ /\ (cpc = "cs_create" /\ cpc' = "done")
           => /\ shipStatus' = "failed"
              /\ orders'[1].status = "paid" /\ UNCHANGED payments
        /\ (tpc = "t_save" /\ tpc' = "done" /\ tmem.status = "failed")
           => /\ shipStatus' = "failed"
              /\ orders'[1].status = "paid" /\ UNCHANGED payments
        /\ (tpc = "t_save" /\ tpc' = "done" /\ tmem.status = "processing")
           => shipStatus' = "processing" /\ shiprocketId' = tmem.id /\ tmem.id # 0
        /\ (cpc = "cs_save" /\ cpc' = "done")
           => shipStatus' = "processing" /\ shiprocketId' = cmem.id /\ cmem.id # 0
      ]_vars

\* --------------------------------------------------------------- C26
\* C26: with the background thread running on and an aggregator that comes
\* to accept, and without any client request, the paid order eventually has
\* an external shipment id (a behaviour in which a client sends a shipment
\* request is not what the claim is about).
C26_EventuallyShipped == <>(shiprocketId # 0 \/ ncalls > 0)

\* --------------------------------------------------------------- C29
\* C29: cancel_shipment on an order whose shipment is already cancelled is
\* answered with success and leaves the order as it was, whatever the
\* aggregator answers.
C29_CancelIdempotent ==
    (cpc = "done" /\ cresp.h = "cancel_shipment" /\ cmem.id # 0
        /\ cmem.status = "cancelled")
    => /\ cresp.code = 200
       /\ shipStatus = "cancelled"
       /\ shiprocketId = cmem.id

\* --------------------------------------------------------------- C23
\* the database of PayInit, as two create_order requests leave it
PayInitReached ==
    /\ \A o \in Orders : orders[o] = ContendedOrder /\ items[o] = ContendedItems
    /\ stock = [p \in Products |-> OpeningStock(p)]
    /\ \A o \in Orders : payments[o] = <<>> /\ gwPay[o] = {}
    /\ cart /\ nreq = 2 /\ NoneActive
    /\ gwOrders = [i \in 1..2 |-> AmountInPaise(Subtotal(ContendedItems) + 50005)]

\* units of product k the debits written so far took
Debited(k) == debits[1][k] * items[1][k] + debits[2][k] * items[2][k]

\* C23: when the payments of two different orders holding the same product
\* are applied concurrently, each order being debited once, the product's
\* stock is the opening stock minus the quantities of the debits written,
\* never below zero, and the debits never take more than the opening stock.
C23_DebitsSerialize ==
    (\A o \in Orders, k \in Products : debits[o][k] <= 1)
    => \A k \in Products :
          /\ stock[k] = OpeningStock(k) - Debited(k)
          /\ stock[k] >= 0
          /\ Debited(k) <= OpeningStock(k)

====
